---- MODULE Spec2Model ----
(***************************************************************************)
(* Model of workspaces/docs-site/utils/align_markdown_tables.py: the       *)
(* tokenizer split_row, the delimiter classifier, the table detector       *)
(* find_tables (one action per iteration of its scanning loop), the        *)
(* renderer align_table and the bottom-up rewrite loop of process_file.    *)
(*                                                                         *)
(* A line is a string; a cell is a string; a row is a sequence of cells;   *)
(* a document is a sequence of lines.  Indices into documents and strings  *)
(* are 0-based as in the source; At and Char do the translation.           *)
(***************************************************************************)
EXTENDS Integers, Sequences, FiniteSets, TLC

VARIABLES
    file,          \* the lines stored at the path (what read_text().splitlines() gives)
    input,         \* the lines the file held before the first pass
    original,      \* process_file: original
    lines,         \* process_file: lines
    pc,            \* position: "find", "apply", "done"; "idle" between the files of a batch
    i,             \* find_tables: i
    in_fence,      \* find_tables: in_fence
    fence_marker,  \* find_tables: fence_marker ("" stands for None)
    toggles,       \* per line index, how many times toggle_fence was called on it
    tables,        \* find_tables: tables (the list returned)
    t_idx,         \* process_file: position in reversed(tables), counting down
    changed,       \* process_file: changed
    writes,        \* number of path.write_text calls made in this pass
    pass,          \* number of the current run of process_file on the file
    rendered,      \* history: [pass, idx, start, end] of every table align_table was called on
    batch          \* main: the files of the run, the loop position, changed_files, how it ended

vars == <<file, input, original, lines, pc, i, in_fence, fence_marker, toggles,
          tables, t_idx, changed, writes, pass, rendered, batch>>

----------------------------------------------------------------------------
(* Bounds of the model.                                                    *)

MaxRowLen == 3   \* longest generated header row, in characters
MaxPrefix == 4   \* longest generated run of lines in front of the closing table
MaxPasses == 3   \* how many times the tool is run on the same file
MaxFiles == 2    \* most files in one run of main

----------------------------------------------------------------------------
(* Python string primitives.                                               *)

\* the backtick character (a string literal of the language cannot hold it bare)
BT == SubSeq("`'", 1, 1)

Char(s, k) == SubSeq(s, k + 1, k + 1)

At(seq, k) == seq[k + 1]

IsSpace(ch) == ch \in {" ", "\t"}

RECURSIVE lstrip(_)
lstrip(s) ==
    IF Len(s) = 0 THEN s
    ELSE IF IsSpace(Char(s, 0)) THEN lstrip(Tail(s))
    ELSE s

RECURSIVE rstrip(_)
rstrip(s) ==
    IF Len(s) = 0 THEN s
    ELSE IF IsSpace(Char(s, Len(s) - 1)) THEN rstrip(SubSeq(s, 1, Len(s) - 1))
    ELSE s

strip(s) == rstrip(lstrip(s))

startswith(s, p) == Len(s) >= Len(p) /\ SubSeq(s, 1, Len(p)) = p

endswith(s, p) == Len(s) >= Len(p) /\ SubSeq(s, Len(s) - Len(p) + 1, Len(s)) = p

HasPipe(s) == {k \in 0..(Len(s) - 1) : Char(s, k) = "|"} # {}

RECURSIVE Repeat(_, _)
Repeat(ch, n) == IF n <= 0 THEN "" ELSE ch \o Repeat(ch, n - 1)

\* a padding that is one space short
ljustShort(s, w) == IF Len(s) >= w - 1 THEN s ELSE s \o Repeat(" ", w - 1 - Len(s))

ljust(s, w) == IF Len(s) >= w THEN s ELSE s \o Repeat(" ", w - Len(s))

Max(a, b) == IF a >= b THEN a ELSE b

----------------------------------------------------------------------------
(* split_row                                                               *)

\* a boundary stripping that forgets the trailing pipe
StripLeadingOnly(line) ==
    LET s0 == strip(line)
    IN  IF startswith(s0, "|") THEN SubSeq(s0, 2, Len(s0)) ELSE s0

\* the boundary stripping at the head of split_row
StripBoundary(line) ==
    LET s0 == strip(line)
        s1 == IF startswith(s0, "|") THEN SubSeq(s0, 2, Len(s0)) ELSE s0
    IN  IF endswith(s1, "|") THEN SubSeq(s1, 1, Len(s1) - 1) ELSE s1

\* the inner loop over a run of backticks: the first index past the run
RECURSIVE TickRunEnd(_, _)
TickRunEnd(s, j) ==
    IF j < Len(s) /\ Char(s, j) = BT THEN TickRunEnd(s, j + 1) ELSE j

\* the escaped-pipe test of the scanning loop
IsEscapedPipe(s, k) ==
    Char(s, k) = "\\" /\ k + 1 < Len(s) /\ Char(s, k + 1) = "|"

\* a separator test that forgets the code-span state
IsSeparatorAnywhere(ch, in_code) == ch = "|"

\* the column-separator test of the scanning loop
IsSeparator(ch, in_code) == ch = "|" /\ ~in_code

\* the scanning loop; code_tick_len 0 stands for None
RECURSIVE SplitLoop(_, _, _, _, _, _)
SplitLoop(s, k, cells, buf, in_code, code_tick_len) ==
    IF k >= Len(s) THEN Append(cells, strip(buf))
    ELSE IF IsEscapedPipe(s, k)
         THEN SplitLoop(s, k + 2, cells, buf \o "\\|", in_code, code_tick_len)
    ELSE IF Char(s, k) = BT
         THEN LET j == TickRunEnd(s, k)
                  tick_len == j - k
                  buf2 == buf \o Repeat(BT, tick_len)
              IN  IF ~in_code
                  THEN SplitLoop(s, j, cells, buf2, TRUE, tick_len)
                  ELSE IF code_tick_len = tick_len
                       THEN SplitLoop(s, j, cells, buf2, FALSE, 0)
                       ELSE SplitLoop(s, j, cells, buf2, in_code, code_tick_len)
    ELSE IF IsSeparator(Char(s, k), in_code)
         THEN SplitLoop(s, k + 1, Append(cells, strip(buf)), "", in_code, code_tick_len)
    ELSE SplitLoop(s, k + 1, cells, buf \o Char(s, k), in_code, code_tick_len)

split_row(line) == SplitLoop(StripBoundary(line), 0, <<>>, "", FALSE, 0)

----------------------------------------------------------------------------
(* is_delimiter_cell, is_delimiter_row                                     *)

AllDashes(s) == \A k \in 0..(Len(s) - 1) : Char(s, k) = "-"

is_delimiter_cell(cell) ==
    IF Len(cell) = 0 THEN FALSE
    ELSE LET c == strip(cell)
             left == startswith(c, ":")
             right == endswith(c, ":")
             core0 == IF left /\ right THEN SubSeq(c, 2, Len(c) - 1)
                      ELSE IF left THEN SubSeq(c, 2, Len(c))
                      ELSE IF right THEN SubSeq(c, 1, Len(c) - 1)
                      ELSE c
             core == strip(core0)
         IN  Len(core) >= 3 /\ AllDashes(core)

is_delimiter_row(line) ==
    IF ~HasPipe(line) THEN FALSE
    ELSE LET cells == split_row(line)
         IN  Len(cells) >= 2 /\ \A k \in 1..Len(cells) : is_delimiter_cell(cells[k])

----------------------------------------------------------------------------
(* read_text().splitlines() and write_text("\n".join(lines) + "\n")        *)

RECURSIVE JoinLines(_)
JoinLines(ls) ==
    IF Len(ls) = 0 THEN ""
    ELSE IF Len(ls) = 1 THEN ls[1]
    ELSE ls[1] \o "\n" \o JoinLines(Tail(ls))

write_text(ls) == JoinLines(ls) \o "\n"

RECURSIVE SplitLinesFrom(_, _, _)
SplitLinesFrom(text, k, cur) ==
    IF k >= Len(text) THEN (IF Len(cur) = 0 THEN <<>> ELSE <<cur>>)
    ELSE IF Char(text, k) = "\n" THEN <<cur>> \o SplitLinesFrom(text, k + 1, "")
    ELSE SplitLinesFrom(text, k + 1, cur \o Char(text, k))

splitlines(text) == SplitLinesFrom(text, 0, "")

----------------------------------------------------------------------------
(* find_tables                                                             *)

FenceMarkerOf(line) ==
    LET stripped == lstrip(line)
    IN  IF startswith(stripped, BT \o BT \o BT) THEN BT \o BT \o BT
        ELSE IF startswith(stripped, "~~~") THEN "~~~"
        ELSE ""

\* toggle_fence applied to the state (inf, marker); "" stands for None
toggle_fence(line, inf, marker) ==
    LET m == FenceMarkerOf(line)
    IN  IF m = "" THEN [in_fence |-> inf, fence_marker |-> marker]
        ELSE IF ~inf THEN [in_fence |-> TRUE, fence_marker |-> m]
        ELSE IF marker = m THEN [in_fence |-> FALSE, fence_marker |-> ""]
        ELSE [in_fence |-> inf, fence_marker |-> marker]

\* the table test of the scanning loop, on line k of ls
IsTableStart(ls, k) ==
    /\ HasPipe(At(ls, k))
    /\ k + 1 < Len(ls)
    /\ is_delimiter_row(At(ls, k + 1))

\* a consume loop that absorbs no line
ConsumeNothing(ls, j) == j

\* the inner loop that consumes contiguous pipe lines: the final value of j
RECURSIVE Consume(_, _)
Consume(ls, j) ==
    IF j >= Len(ls) THEN j
    ELSE IF Len(strip(At(ls, j))) = 0 THEN j
    ELSE IF ~HasPipe(At(ls, j)) THEN j
    ELSE IF FenceMarkerOf(At(ls, j)) # "" THEN j
    ELSE Consume(ls, j + 1)

RawRows(ls, start, end) ==
    [k \in 1..(end - start + 1) |-> split_row(At(ls, start + k - 1))]

MakeTable(ls, start) ==
    LET end == Consume(ls, start) - 1
    IN  [start |-> start, end |-> end, rows |-> RawRows(ls, start, end)]

----------------------------------------------------------------------------
(* align_table                                                             *)

RECURSIVE MaxLen(_)
MaxLen(rows) ==
    IF Len(rows) = 1 THEN Len(rows[1]) ELSE Max(Len(rows[1]), MaxLen(Tail(rows)))

PadRow(r, ncols) == r \o [k \in 1..(ncols - Len(r)) |-> ""]

AlignOf(c) ==
    LET cs == strip(c)
    IN  [left |-> startswith(cs, ":"), right |-> endswith(cs, ":")]

\* widths[cidx] before the floor: the longest cell of the column, delimiter row apart
RECURSIVE ContentWidth(_, _, _)
ContentWidth(rows, ridx, cidx) ==
    IF ridx > Len(rows) THEN 0
    ELSE IF ridx = 2 THEN ContentWidth(rows, ridx + 1, cidx)
    ELSE Max(Len(rows[ridx][cidx]), ContentWidth(rows, ridx + 1, cidx))

MinWidth == 3

\* a column width without the floor of three
ColWidthNoFloor(rows, cidx) == ContentWidth(rows, 1, cidx)

ColWidth(rows, cidx) == Max(ContentWidth(rows, 1, cidx), MinWidth)

\* a delimiter cell that loses the right-alignment colon
DelimCoreLeftOnly(align, core_len) ==
    LET core0 == Repeat("-", core_len)
    IN  IF align.left THEN ":" \o SubSeq(core0, 2, Len(core0)) ELSE core0

DelimCore(align, core_len) ==
    LET core0 == Repeat("-", core_len)
        core1 == IF align.left THEN ":" \o SubSeq(core0, 2, Len(core0)) ELSE core0
    IN  IF align.right THEN SubSeq(core1, 1, Len(core1) - 1) \o ":" ELSE core1

RECURSIVE JoinWith(_, _)
JoinWith(sep, parts) ==
    IF Len(parts) = 0 THEN ""
    ELSE IF Len(parts) = 1 THEN parts[1]
    ELSE parts[1] \o sep \o JoinWith(sep, Tail(parts))

RenderLine(parts) == "| " \o JoinWith(" | ", parts) \o " |"

align_table(t) ==
    LET ncols == MaxLen(t.rows)
        rows == [r \in 1..Len(t.rows) |-> PadRow(t.rows[r], ncols)]
        delim == rows[2]
        widths == [c \in 1..ncols |-> ColWidth(rows, c)]
    IN  [r \in 1..Len(rows) |->
            IF r = 2
            THEN RenderLine([c \in 1..ncols |-> DelimCore(AlignOf(delim[c]), widths[c])])
            ELSE RenderLine([c \in 1..ncols |-> ljust(rows[r][c], widths[c])])]

----------------------------------------------------------------------------
(* process_file                                                            *)

\* a rewrite loop that also skips tables whose rows differ in length
RejectedWhenRagged(t, ls) ==
    IF Len(t.rows) < 2 THEN TRUE
    ELSE IF \E a, b \in 1..Len(t.rows) : Len(t.rows[a]) # Len(t.rows[b]) THEN TRUE
    ELSE ~is_delimiter_row(At(ls, t.start + 1))

\* the three "continue" tests of the rewrite loop, in the order of the source
Rejected(t, ls) ==
    IF Len(t.rows) < 2 THEN TRUE
    ELSE IF MaxLen(t.rows) < 2 THEN TRUE
    ELSE ~is_delimiter_row(At(ls, t.start + 1))

Slice(ls, t) == SubSeq(ls, t.start + 1, t.end + 1)

\* a splice that leaves the last line of the range in place
SpliceKeepsLast(ls, t, aligned) ==
    SubSeq(ls, 1, t.start) \o aligned \o SubSeq(ls, t.end + 1, Len(ls))

Splice(ls, t, aligned) ==
    SubSeq(ls, 1, t.start) \o aligned \o SubSeq(ls, t.end + 2, Len(ls))

----------------------------------------------------------------------------
(* The documents the runs start from.                                      *)

RowAlphabet == {"|", "a", BT, "\\", " "}

RECURSIVE StringsUpTo(_)
StringsUpTo(n) ==
    IF n = 0 THEN {""}
    ELSE {""} \cup {c \o r : c \in RowAlphabet, r \in StringsUpTo(n - 1)}

HeaderRows == StringsUpTo(MaxRowLen)

DelimRows == {"---|---", ":---|---:|:---:", "|-|-|"}

BodyRows ==
    { <<>>,
      <<"a|aaaa|a|a">>,
      <<"a|" \o BT>>,
      <<BT \o BT \o " " \o BT \o " | " \o BT \o BT \o "|x\\|">> }

ScenarioDocs ==
    { <<"|a|bb|", "|-|-|", "|1|22|">>,
      <<"|a|bb|", "|---|---|", "|1|22|">>,
      <<"~~~", "~~~|", "---|---">>,
      <<"x", "", "| a   | b   |", "| --- | --- |", "", "a|b\\|", "---|---">>,
      <<"aaaa|bbbb|ccccc", ":---|---:|:---:", "a|b">>,
      <<"|", "---|---", "", "~~~", "~~~|", "---|---">>,
      <<"a|b", ": ---|--- :">>,
      <<"\\ |a", "---|---">> }

TableDocs ==
    {<<h, d>> \o b : h \in HeaderRows, d \in DelimRows, b \in BodyRows} \cup ScenarioDocs

FenceLines == {"~~~", "~~~|", "---|---", BT \o BT \o BT, "a|b", ""}

Prefixes == UNION {[1..n -> FenceLines] : n \in 0..MaxPrefix}

ClosingTables == {<<>>, <<"a|b", "---|---", "~~~">>}

FenceDocs == {p \o c : p \in Prefixes, c \in ClosingTables} \ {<<>>}

\* the state right after process_file has read the file, for a file holding doc
\* process_file called on one path, outside a run of main
NoBatch == [files |-> <<>>, idx |-> 0, changed_files |-> 0, status |-> "none",
            returned |-> {}, failed |-> {}]

Start(doc) ==
    /\ file = write_text(doc)
    /\ input = splitlines(file)
    /\ original = splitlines(file)
    /\ lines = splitlines(file)
    /\ pc = "find"
    /\ i = 0
    /\ in_fence = FALSE
    /\ fence_marker = ""
    /\ toggles = [k \in 1..Len(splitlines(file)) |-> 0]
    /\ tables = <<>>
    /\ t_idx = 0
    /\ changed = FALSE
    /\ writes = 0
    /\ pass = 1
    /\ rendered = {}
    /\ batch = NoBatch

Init == \E doc \in TableDocs : Start(doc)

InitFence == \E doc \in FenceDocs : Start(doc)

----------------------------------------------------------------------------
(* find_tables: one action per iteration of the scanning loop.             *)

\* toggle_fence(lines[i]) leaves a fence open: the line is skipped
ScanInFence ==
    /\ pc = "find"
    /\ i < Len(lines)
    /\ LET st == toggle_fence(At(lines, i), in_fence, fence_marker)
       IN  /\ st.in_fence
           /\ in_fence' = st.in_fence
           /\ fence_marker' = st.fence_marker
           /\ toggles' = [toggles EXCEPT ![i + 1] = @ + 1]
           /\ i' = i + 1
    /\ UNCHANGED <<file, input, original, lines, pc, tables, t_idx, changed, writes, pass, rendered, batch>>

\* a table branch that resumes on the line after the header, not after the table
ScanTableNoSkip ==
    /\ pc = "find"
    /\ i < Len(lines)
    /\ LET st == toggle_fence(At(lines, i), in_fence, fence_marker)
           t == MakeTable(lines, i)
       IN  /\ ~st.in_fence
           /\ IsTableStart(lines, i)
           /\ in_fence' = st.in_fence
           /\ fence_marker' = st.fence_marker
           /\ toggles' = [toggles EXCEPT ![i + 1] = @ + 1]
           /\ tables' = Append(tables, t)
           /\ i' = i + 1
    /\ UNCHANGED <<file, input, original, lines, pc, t_idx, changed, writes, pass, rendered, batch>>

\* a header line followed by a delimiter row: a Table is appended
ScanTable ==
    /\ pc = "find"
    /\ i < Len(lines)
    /\ LET st == toggle_fence(At(lines, i), in_fence, fence_marker)
           t == MakeTable(lines, i)
       IN  /\ ~st.in_fence
           /\ IsTableStart(lines, i)
           /\ in_fence' = st.in_fence
           /\ fence_marker' = st.fence_marker
           /\ toggles' = [toggles EXCEPT ![i + 1] = @ + 1]
           /\ tables' = Append(tables, t)
           /\ i' = t.end + 1
    /\ UNCHANGED <<file, input, original, lines, pc, t_idx, changed, writes, pass, rendered, batch>>

\* any other line
ScanOther ==
    /\ pc = "find"
    /\ i < Len(lines)
    /\ LET st == toggle_fence(At(lines, i), in_fence, fence_marker)
       IN  /\ ~st.in_fence
           /\ ~IsTableStart(lines, i)
           /\ in_fence' = st.in_fence
           /\ fence_marker' = st.fence_marker
           /\ toggles' = [toggles EXCEPT ![i + 1] = @ + 1]
           /\ i' = i + 1
    /\ UNCHANGED <<file, input, original, lines, pc, tables, t_idx, changed, writes, pass, rendered, batch>>

----------------------------------------------------------------------------
(* process_file after find_tables has returned.                            *)

\* "if not tables: return False"
ReturnNoTables ==
    /\ pc = "find"
    /\ i >= Len(lines)
    /\ tables = <<>>
    /\ pc' = "done"
    /\ UNCHANGED <<file, input, original, lines, i, in_fence, fence_marker, toggles,
                   tables, t_idx, changed, writes, pass, rendered, batch>>

\* entry of "for t in reversed(tables)"
BeginApply ==
    /\ pc = "find"
    /\ i >= Len(lines)
    /\ tables # <<>>
    /\ pc' = "apply"
    /\ t_idx' = Len(tables)
    /\ changed' = FALSE
    /\ UNCHANGED <<file, input, original, lines, i, in_fence, fence_marker, toggles,
                   tables, writes, pass, rendered, batch>>

\* one of the three "continue" tests holds
ApplyReject ==
    /\ pc = "apply"
    /\ t_idx >= 1
    /\ Rejected(tables[t_idx], lines)
    /\ t_idx' = t_idx - 1
    /\ UNCHANGED <<file, input, original, lines, pc, i, in_fence, fence_marker, toggles,
                   tables, changed, writes, pass, rendered, batch>>

\* the table is rendered and spliced in when the rendering differs
ApplyAlign ==
    /\ pc = "apply"
    /\ t_idx >= 1
    /\ ~Rejected(tables[t_idx], lines)
    /\ LET t == tables[t_idx]
           aligned == align_table(t)
       IN  IF Slice(lines, t) # aligned
           THEN /\ lines' = Splice(lines, t, aligned)
                /\ changed' = TRUE
           ELSE UNCHANGED <<lines, changed>>
    /\ t_idx' = t_idx - 1
    /\ rendered' = rendered \cup {[pass |-> pass, idx |-> t_idx,
                                    start |-> tables[t_idx].start, end |-> tables[t_idx].end]}
    /\ UNCHANGED <<file, input, original, pc, i, in_fence, fence_marker, toggles,
                   tables, writes, pass, batch>>

\* a return that writes the file whether or not a table changed
FinishAlwaysWrites ==
    /\ pc = "apply"
    /\ t_idx = 0
    /\ file' = write_text(lines)
    /\ writes' = writes + 1
    /\ pc' = "done"
    /\ UNCHANGED <<input, original, lines, i, in_fence, fence_marker, toggles,
                   tables, t_idx, changed, pass, rendered, batch>>

\* "if changed: path.write_text(...)" and "return changed"
Finish ==
    /\ pc = "apply"
    /\ t_idx = 0
    /\ IF changed
       THEN /\ file' = write_text(lines)
            /\ writes' = writes + 1
       ELSE UNCHANGED <<file, writes>>
    /\ pc' = "done"
    /\ UNCHANGED <<input, original, lines, i, in_fence, fence_marker, toggles,
                   tables, t_idx, changed, pass, rendered, batch>>

\* the tool is run again on the same path
Rerun ==
    /\ pc = "done"
    /\ pass < MaxPasses
    /\ pass' = pass + 1
    /\ original' = splitlines(file)
    /\ lines' = splitlines(file)
    /\ pc' = "find"
    /\ i' = 0
    /\ in_fence' = FALSE
    /\ fence_marker' = ""
    /\ toggles' = [k \in 1..Len(splitlines(file)) |-> 0]
    /\ tables' = <<>>
    /\ t_idx' = 0
    /\ changed' = FALSE
    /\ writes' = 0
    /\ UNCHANGED <<file, input, rendered, batch>>

Next ==
    \/ ScanInFence
    \/ ScanTable
    \/ ScanOther
    \/ ReturnNoTables
    \/ BeginApply
    \/ ApplyReject
    \/ ApplyAlign
    \/ Finish
    \/ Rerun

Spec == Init /\ [][Next]_vars

SpecFence == InitFence /\ [][Next]_vars

----------------------------------------------------------------------------
(* main: one run over a batch of files.  A file is its text and whether    *)
(* read_text and write_text succeed on it; an exception raised by either   *)
(* is caught nowhere in process_file or main.                              *)

BatchDocs ==
    { <<"x">>,
      <<"a|b", "---|---">>,
      <<"| a   | b   |", "| --- | --- |">>,
      <<"~~~", "~~~|", "---|---">> }

Files == [text : {write_text(d) : d \in BatchDocs}, readable : BOOLEAN, writable : BOOLEAN]

Batches == UNION {[1..n -> Files] : n \in 1..MaxFiles}

InitBatch ==
    /\ batch \in {[files |-> fs, idx |-> 0, changed_files |-> 0, status |-> "running",
                   returned |-> {}, failed |-> {}] : fs \in Batches}
    /\ file = ""
    /\ input = <<>>
    /\ original = <<>>
    /\ lines = <<>>
    /\ pc = "idle"
    /\ i = 0
    /\ in_fence = FALSE
    /\ fence_marker = ""
    /\ toggles = <<>>
    /\ tables = <<>>
    /\ t_idx = 0
    /\ changed = FALSE
    /\ writes = 0
    /\ pass = 1
    /\ rendered = {}

\* the file the loop of main is at
CurrentFile == batch.files[batch.idx + 1]

\* "for f in ...: process_file(f)", up to the read of the file and the entry of find_tables
MainNextFile ==
    /\ batch.status = "running"
    /\ pc = "idle"
    /\ batch.idx < Len(batch.files)
    /\ CurrentFile.readable
    /\ file' = CurrentFile.text
    /\ input' = splitlines(CurrentFile.text)
    /\ original' = splitlines(CurrentFile.text)
    /\ lines' = splitlines(CurrentFile.text)
    /\ pc' = "find"
    /\ i' = 0
    /\ in_fence' = FALSE
    /\ fence_marker' = ""
    /\ toggles' = [k \in 1..Len(splitlines(CurrentFile.text)) |-> 0]
    /\ tables' = <<>>
    /\ t_idx' = 0
    /\ changed' = FALSE
    /\ writes' = 0
    /\ rendered' = {}
    /\ UNCHANGED <<pass, batch>>

\* path.read_text raises: the exception leaves process_file and main
MainReadFails ==
    /\ batch.status = "running"
    /\ pc = "idle"
    /\ batch.idx < Len(batch.files)
    /\ ~CurrentFile.readable
    /\ batch' = [batch EXCEPT !.status = "raised", !.failed = @ \cup {batch.idx + 1}]
    /\ UNCHANGED <<file, input, original, lines, pc, i, in_fence, fence_marker, toggles,
                   tables, t_idx, changed, writes, pass, rendered>>

\* the return of process_file when the write, if there is one, succeeds
MainFinish ==
    /\ batch.status = "running"
    /\ pc = "apply"
    /\ changed => CurrentFile.writable
    /\ Finish

\* path.write_text raises: the exception leaves process_file and main
MainWriteFails ==
    /\ batch.status = "running"
    /\ pc = "apply"
    /\ t_idx = 0
    /\ changed
    /\ ~CurrentFile.writable
    /\ batch' = [batch EXCEPT !.status = "raised", !.failed = @ \cup {batch.idx + 1}]
    /\ UNCHANGED <<file, input, original, lines, pc, i, in_fence, fence_marker, toggles,
                   tables, t_idx, changed, writes, pass, rendered>>

\* "if process_file(f): changed_files += 1", and on to the next file
MainCount ==
    /\ batch.status = "running"
    /\ pc = "done"
    /\ batch' = [batch EXCEPT !.changed_files = IF changed THEN @ + 1 ELSE @,
                              !.returned = @ \cup {batch.idx + 1},
                              !.idx = @ + 1]
    /\ pc' = "idle"
    /\ UNCHANGED <<file, input, original, lines, i, in_fence, fence_marker, toggles,
                   tables, t_idx, changed, writes, pass, rendered>>

\* the loop is over: print(f"Aligned tables in {changed_files} file(s).") and return 0
MainReturn ==
    /\ batch.status = "running"
    /\ pc = "idle"
    /\ batch.idx >= Len(batch.files)
    /\ batch' = [batch EXCEPT !.status = "reported"]
    /\ UNCHANGED <<file, input, original, lines, pc, i, in_fence, fence_marker, toggles,
                   tables, t_idx, changed, writes, pass, rendered>>

NextBatch ==
    \/ MainNextFile
    \/ MainReadFails
    \/ ScanInFence
    \/ ScanTable
    \/ ScanOther
    \/ ReturnNoTables
    \/ BeginApply
    \/ ApplyReject
    \/ ApplyAlign
    \/ MainFinish
    \/ MainWriteFails
    \/ MainCount
    \/ MainReturn

SpecBatch == InitBatch /\ [][NextBatch]_vars

----------------------------------------------------------------------------
(* Notions shared by the properties.                                       *)

\* line index k lies in the [start, end] range of a table of ts
InTableRange(ts, k) == \E n \in 1..Len(ts) : ts[n].start <= k /\ k <= ts[n].end

\* the tables of the current pass that the rewrite loop renders
Rendered == {r.idx : r \in {q \in rendered : q.pass = pass}}

RangeOf(t) == t.start..t.end

PassOver == pc = "done"

----------------------------------------------------------------------------
(* C1  Idempotence of the whole document pass: the second run of the tool  *)
(* on a file reports changed = FALSE and leaves every line as it was.      *)
(* The code violates it: a row that ends in an unterminated code span and  *)
(* is padded with empty cells swallows the padding pipes on the next pass. *)

C1_SecondPassChangesNothing ==
    (pass = 2 /\ PassOver) => (~changed /\ lines = original /\ writes = 0)

----------------------------------------------------------------------------
(* C2  Frame of the rewrite: the output has as many lines as the input,    *)
(* and every line outside the [start, end] range of every table returned   *)
(* by find_tables is the same in the working copy and, once the pass is    *)
(* over, in the file.                                                      *)

C2_Frame ==
    /\ Len(lines) = Len(original)
    /\ \A k \in 0..(Len(original) - 1) :
          ~InTableRange(tables, k) => At(lines, k) = At(original, k)
    /\ PassOver =>
          LET out == splitlines(file)
          IN  /\ Len(out) = Len(original)
              /\ \A k \in 0..(Len(original) - 1) :
                    ~InTableRange(tables, k) => At(out, k) = At(original, k)

\* a pass that rewrote a table of a document that also has lines outside every table
C2_Witness ==
    /\ PassOver
    /\ changed
    /\ writes = 1
    /\ \E k \in 0..(Len(original) - 1) :
          ~InTableRange(tables, k) /\ Len(At(original, k)) > 0

----------------------------------------------------------------------------
(* The fence state of the specification: a left fold of the toggle rule    *)
(* over the lines, each line applied once.  A fence opens on a line that   *)
(* starts (after leading whitespace) with three backticks or three tildes  *)
(* when none is open, and closes on a line that starts with the marker     *)
(* that opened it.                                                         *)

FoldMarker(line) ==
    LET s == lstrip(line)
    IN  IF Len(s) >= 3 /\ Char(s, 0) = BT /\ Char(s, 1) = BT /\ Char(s, 2) = BT THEN "backtick"
        ELSE IF Len(s) >= 3 /\ Char(s, 0) = "~" /\ Char(s, 1) = "~" /\ Char(s, 2) = "~" THEN "tilde"
        ELSE "none"

\* the fold's state before line k: "none" when no fence is open, else the open marker
RECURSIVE FoldBefore(_, _)
FoldBefore(ls, k) ==
    IF k = 0 THEN "none"
    ELSE LET prev == FoldBefore(ls, k - 1)
             m == FoldMarker(At(ls, k - 1))
         IN  IF m = "none" THEN prev
             ELSE IF prev = "none" THEN m
             ELSE IF prev = m THEN "none"
             ELSE prev

FoldOpens(ls, k) == FoldBefore(ls, k) = "none" /\ FoldMarker(At(ls, k)) # "none"

FoldCloses(ls, k) == FoldBefore(ls, k) # "none" /\ FoldMarker(At(ls, k)) = FoldBefore(ls, k)

\* line k is a fence line or lies between an opening and a closing fence line
FoldInside(ls, k) == FoldBefore(ls, k) # "none" \/ FoldOpens(ls, k)

\* line k lies in a fenced block that is closed further down (fence lines included)
InFencedBlock(ls, k) ==
    /\ FoldInside(ls, k)
    /\ \E m \in k..(Len(ls) - 1) : FoldCloses(ls, m)

----------------------------------------------------------------------------
(* C3  Non-table passthrough: a document with no pair of adjacent lines    *)
(* outside a fence, the first holding a pipe and the second a valid        *)
(* delimiter row, comes out line for line as it went in, with changed      *)
(* FALSE and nothing written.                                              *)
(* The code violates it on documents where a line closing a fence holds a  *)
(* pipe and is followed by a delimiter row: toggle_fence runs twice on     *)
(* that line, and a table inside a later fence is rewritten.               *)

HeaderPairOutsideFence(ls, k) ==
    /\ k + 1 < Len(ls)
    /\ ~FoldInside(ls, k)
    /\ ~FoldInside(ls, k + 1)
    /\ HasPipe(At(ls, k))
    /\ is_delimiter_row(At(ls, k + 1))

NoTableOutsideFence(ls) ==
    \A k \in 0..(Len(ls) - 1) : ~HeaderPairOutsideFence(ls, k)

C3_Passthrough ==
    (PassOver /\ pass = 1 /\ NoTableOutsideFence(input))
        => (lines = input /\ ~changed /\ writes = 0 /\ splitlines(file) = input)

----------------------------------------------------------------------------
(* C4  Fenced content is never rewritten: every line of a fenced block     *)
(* (from the line that opens the fence to the line that closes it, both    *)
(* included, by the fold of the specification) is the same after the pass, *)
(* in the working copy and in the file.                                    *)
(* The code violates it: after the double toggle on a closing line that    *)
(* starts a table candidate, its fence state is the opposite of the        *)
(* fold's, and the table inside the next fenced block is aligned.          *)

C4_FencedLinesKept ==
    (PassOver /\ pass = 1) =>
        \A k \in 0..(Len(input) - 1) :
            InFencedBlock(input, k) =>
                (At(lines, k) = At(input, k) /\ At(splitlines(file), k) = At(input, k))

----------------------------------------------------------------------------
(* C5  Escaped-pipe preservation: every backslash-pipe pair of an input    *)
(* row is in the rendered row, as many times as in the input, wherever it  *)
(* stands in the row.                                                      *)
(* The code violates it for a row whose last two characters are a          *)
(* backslash and a pipe: split_row strips that pipe as the trailing        *)
(* boundary pipe before it looks for escapes.                              *)

RECURSIVE EscapedPipes(_, _)
EscapedPipes(s, k) ==
    IF k + 1 >= Len(s) THEN 0
    ELSE IF Char(s, k) = "\\" /\ Char(s, k + 1) = "|" THEN 1 + EscapedPipes(s, k + 2)
    ELSE EscapedPipes(s, k + 1)

C5_EscapedPipesKept ==
    (PassOver /\ pass = 1) =>
        \A n \in Rendered : \A k \in RangeOf(tables[n]) :
            EscapedPipes(At(lines, k), 0) = EscapedPipes(At(input, k), 0)

----------------------------------------------------------------------------
(* C6  Code-span opacity: the text between a backtick run that opens a     *)
(* code span and the later run of the same length that closes it is the    *)
(* same in the rendered row, pipes included, and every such span lies      *)
(* whole inside one cell of split_row.                                     *)

\* the contents of the closed code spans of s, left to right;
\* open_len = 0 when no span is open, from is the index after the opening run
RECURSIVE SpanScan(_, _, _, _)
SpanScan(s, k, open_len, from) ==
    IF k >= Len(s) THEN <<>>
    ELSE IF Char(s, k) # BT THEN SpanScan(s, k + 1, open_len, from)
    ELSE LET j == CHOOSE e \in (k + 1)..Len(s) :
                     /\ \A m \in k..(e - 1) : Char(s, m) = BT
                     /\ (e = Len(s) \/ Char(s, e) # BT)
             n == j - k
         IN  IF open_len = 0 THEN SpanScan(s, j, n, j)
             ELSE IF n = open_len THEN <<SubSeq(s, from + 1, k)>> \o SpanScan(s, j, 0, 0)
             ELSE SpanScan(s, j, open_len, from)

CodeSpans(s) == SpanScan(s, 0, 0, 0)

RECURSIVE SpansOfCells(_)
SpansOfCells(cells) ==
    IF Len(cells) = 0 THEN <<>> ELSE CodeSpans(cells[1]) \o SpansOfCells(Tail(cells))

C6_CodeSpansOpaque ==
    PassOver =>
        \A n \in Rendered : \A k \in RangeOf(tables[n]) :
            /\ CodeSpans(At(lines, k)) = CodeSpans(At(original, k))
            /\ SpansOfCells(split_row(At(original, k))) = CodeSpans(At(original, k))

\* a row with a pipe inside a closed code span was rewritten
C6_Witness ==
    /\ PassOver
    /\ \E n \in Rendered : \E k \in RangeOf(tables[n]) :
          /\ At(lines, k) # At(original, k)
          /\ \E q \in 1..Len(CodeSpans(At(original, k))) :
                HasPipe(CodeSpans(At(original, k))[q])

----------------------------------------------------------------------------
(* C7  Column-count invariant: every output line of a rendered table,      *)
(* tokenized again by split_row, has exactly ncols cells, ncols being the  *)
(* largest cell count of the table's input rows.                           *)
(* The code violates it: an unterminated code span in the last cell of a   *)
(* row shorter than ncols takes the pipes of the padding cells as content. *)

C7_ColumnCount ==
    (PassOver /\ pass = 1) =>
        \A n \in Rendered : \A k \in RangeOf(tables[n]) :
            Len(split_row(At(lines, k))) = MaxLen(tables[n].rows)

----------------------------------------------------------------------------
(* C8  Alignment-marker preservation: in every pass, for every rendered    *)
(* table and every column, the (left, right) pair read from the output     *)
(* delimiter row is the pair read from the delimiter row of the document   *)
(* as it was before the first pass; a column the input delimiter row lacks *)
(* counts as (FALSE, FALSE).                                               *)

NoAlign == [left |-> FALSE, right |-> FALSE]

FlagsOf(line, c) ==
    LET cells == split_row(line)
    IN  IF c <= Len(cells) THEN AlignOf(cells[c]) ELSE NoAlign

C8_AlignmentKept ==
    PassOver =>
        \A r \in rendered :
            LET d == r.start + 1
            IN  /\ Len(split_row(At(lines, d))) >= Len(split_row(At(input, d)))
                /\ \A c \in 1..Len(split_row(At(lines, d))) :
                      FlagsOf(At(lines, d), c) = FlagsOf(At(input, d), c)

\* the last pass has rendered again a table that an earlier pass rewrote and whose
\* delimiter row declares a left, a right and a centred column
C8_Witness ==
    /\ PassOver
    /\ pass = MaxPasses
    /\ \E r \in rendered :
          LET d == r.start + 1
          IN  /\ r.pass = pass
              /\ At(lines, d) # At(input, d)
              /\ FlagsOf(At(input, d), 1) = [left |-> TRUE, right |-> FALSE]
              /\ FlagsOf(At(input, d), 2) = [left |-> FALSE, right |-> TRUE]
              /\ FlagsOf(At(input, d), 3) = [left |-> TRUE, right |-> TRUE]

----------------------------------------------------------------------------
(* C9  Worked scenario.  As stated: the document "|a|bb|", "|-|-|",        *)
(* "|1|22|" comes out as "| a   | bb  |", "| --- | --- |", "| 1   | 22  |" *)
(* with changed TRUE.  It does not: "-" is no delimiter cell (three dashes *)
(* are needed), so the document holds no table.                            *)

ScenarioInput == <<"|a|bb|", "|-|-|", "|1|22|">>

ScenarioThreeDashes == <<"|a|bb|", "|---|---|", "|1|22|">>

ScenarioOutput == <<"| a   | bb  |", "| --- | --- |", "| 1   | 22  |">>

C9_ScenarioAsStated ==
    (PassOver /\ pass = 1 /\ input = ScenarioInput)
        => (lines = ScenarioOutput /\ changed)

\* C9 as amended: with a delimiter row of three dashes per cell the scenario's output
\* is produced, changed is TRUE and the file holds the output; with the one-dash
\* delimiter row the document is left as it is, changed is FALSE, nothing is written
C9_ScenarioAmended ==
    /\ (PassOver /\ pass = 1 /\ input = ScenarioThreeDashes)
          => (lines = ScenarioOutput /\ changed /\ file = write_text(ScenarioOutput))
    /\ (PassOver /\ pass = 1 /\ input = ScenarioInput)
          => (lines = ScenarioInput /\ ~changed /\ writes = 0)

C9_Witness ==
    PassOver /\ pass = 1 /\ input = ScenarioThreeDashes /\ writes = 1

----------------------------------------------------------------------------
(* C10  Pipe alignment: with w[c] the larger of 3 and the longest cell of  *)
(* column c over the rows other than the delimiter row, every output line  *)
(* of a rendered table is "| " f1 " | " f2 ... " |" with field fc exactly  *)
(* w[c] characters long: the cell text followed by spaces in the header    *)
(* and body rows; in the delimiter row w[c] dashes, the first replaced by  *)
(* a colon for a left flag and the last by a colon for a right flag.  So   *)
(* the lines of a table have one length and their separator pipes stand at *)
(* the same positions.                                                     *)

MaxOf(S) == CHOOSE m \in S : \A x \in S : x <= m

CellAt(t, q, c) == IF c <= Len(t.rows[q]) THEN t.rows[q][c] ELSE ""

ColumnsOf(t) == MaxOf({Len(t.rows[q]) : q \in 1..Len(t.rows)})

DeclaredWidth(t, c) ==
    MaxOf({3} \cup {Len(CellAt(t, q, c)) : q \in (1..Len(t.rows)) \ {2}})

\* index of the first character of field c in a rendered line
RECURSIVE FieldOffset(_, _)
FieldOffset(t, c) ==
    IF c = 1 THEN 2 ELSE FieldOffset(t, c - 1) + DeclaredWidth(t, c - 1) + 3

FieldOf(line, t, c) ==
    SubSeq(line, FieldOffset(t, c) + 1, FieldOffset(t, c) + DeclaredWidth(t, c))

ExpectedField(t, q, c) ==
    LET w == DeclaredWidth(t, c)
        cell == CellAt(t, q, c)
        flags == AlignOf(cell)
    IN  IF q = 2
        THEN (IF flags.left THEN ":" ELSE "-")
                 \o Repeat("-", w - 2)
                 \o (IF flags.right THEN ":" ELSE "-")
        ELSE cell \o Repeat(" ", w - Len(cell))

LineAligned(line, t, q) ==
    LET n == ColumnsOf(t)
    IN  /\ Len(line) = FieldOffset(t, n + 1) - 1
        /\ Char(line, 0) = "|"
        /\ \A c \in 1..n :
              LET o == FieldOffset(t, c)
                  w == DeclaredWidth(t, c)
              IN  /\ Char(line, o - 1) = " "
                  /\ FieldOf(line, t, c) = ExpectedField(t, q, c)
                  /\ Char(line, o + w) = " "
                  /\ Char(line, o + w + 1) = "|"

C10_PipesAligned ==
    PassOver =>
        \A n \in Rendered : \A q \in 1..Len(tables[n].rows) :
            LineAligned(At(lines, tables[n].start + q - 1), tables[n], q)

\* a rewritten table of three rows with rows of different cell counts and a column
\* wider than three
C10_Witness ==
    /\ PassOver
    /\ changed
    /\ \E n \in Rendered :
          /\ Len(tables[n].rows) >= 3
          /\ Len(tables[n].rows[1]) < Len(tables[n].rows[3])
          /\ \E c \in 1..ColumnsOf(tables[n]) : DeclaredWidth(tables[n], c) > 3

----------------------------------------------------------------------------
(* C11  Change reporting and persistence: when a pass is over, changed is  *)
(* TRUE exactly when the lines of some rendered (non-rejected) table       *)
(* differ from the original lines of its range; the file is written once   *)
(* when changed is TRUE, with the rewritten lines, and not at all when it  *)
(* is FALSE, so a document with no table or with aligned tables only is    *)
(* never written.                                                          *)

C11_ChangeReporting ==
    PassOver =>
        /\ changed <=>
              \E n \in Rendered : Slice(lines, tables[n]) # Slice(original, tables[n])
        /\ changed <=> (lines # original)
        /\ writes = (IF changed THEN 1 ELSE 0)
        /\ changed => file = write_text(lines)
        /\ ~changed => splitlines(file) = original

\* a pass over a document whose tables were rendered and found aligned: nothing written
C11_Witness ==
    /\ PassOver
    /\ Rendered # {}
    /\ ~changed
    /\ writes = 0

----------------------------------------------------------------------------
(* C13  Malformed spans.  As stated: every detected table whose rows do    *)
(* not all have the same number of cells, or whose second line is not a    *)
(* delimiter row at alignment time, keeps every line of its span.          *)

Ragged(t) == \E a, b \in 1..Len(t.rows) : Len(t.rows[a]) # Len(t.rows[b])

Malformed(t, ls) ==
    \/ Ragged(t)
    \/ t.start + 1 >= Len(ls)
    \/ ~is_delimiter_row(At(ls, t.start + 1))

C13_MalformedLeftAlone ==
    PassOver =>
        \A n \in 1..Len(tables) :
            Malformed(tables[n], original) =>
                Slice(lines, tables[n]) = Slice(original, tables[n])

(* C13 amended: a detected table is skipped exactly when it has fewer than *)
(* 2 rows, no row with 2 cells, or a second line that is not a delimiter   *)
(* row; a skipped table leaves its span, its first line and the line after *)
(* it as they were; a table with rows of different lengths is not skipped: *)
(* it is padded and its span holds the rendering of align_table.           *)

C13_SkippedLeftAlone ==
    PassOver =>
        \A n \in 1..Len(tables) :
            LET t == tables[n] IN
            /\ (n \notin Rendered) <=> Rejected(t, original)
            /\ n \notin Rendered =>
                  /\ Slice(lines, t) = Slice(original, t)
                  /\ At(lines, t.start) = At(original, t.start)
                  /\ At(lines, t.start + 1) = At(original, t.start + 1)
            /\ (Len(t.rows) >= 2 /\ Ragged(t)) =>
                  /\ n \in Rendered
                  /\ Slice(lines, t) = align_table(t)

\* one pass that skipped a table and padded and rewrote a ragged one
C13_Witness ==
    /\ PassOver
    /\ \E n \in 1..Len(tables) : n \notin Rendered
    /\ \E n \in Rendered :
          /\ Ragged(tables[n])
          /\ Slice(lines, tables[n]) # Slice(original, tables[n])

----------------------------------------------------------------------------
(* C14  Delimiter classification: a line is accepted by is_delimiter_row   *)
(* exactly when its tokenization has at least 2 cells and every cell,      *)
(* after one optional leading colon and one optional trailing colon are    *)
(* removed, is three or more dashes and nothing else (no whitespace        *)
(* between a colon and the dashes).                                        *)

ColonsRemoved(cell) ==
    LET a == IF startswith(cell, ":") THEN SubSeq(cell, 2, Len(cell)) ELSE cell
    IN  IF endswith(a, ":") THEN SubSeq(a, 1, Len(a) - 1) ELSE a

DashesOnlyCell(cell) ==
    LET core == ColonsRemoved(cell) IN Len(core) >= 3 /\ AllDashes(core)

DashesOnlyRow(line) ==
    LET cells == split_row(line)
    IN  Len(cells) >= 2 /\ \A c \in 1..Len(cells) : DashesOnlyCell(cells[c])

\* checked on the lines of a document once find_tables has classified them
C14_DelimiterClassification ==
    pc = "apply" =>
        \A k \in 1..Len(original) :
            is_delimiter_row(original[k]) <=> DashesOnlyRow(original[k])

----------------------------------------------------------------------------
(* C15  Fence state is a strict left fold: whenever the scanning loop of   *)
(* find_tables is about to handle line i, its (in_fence, fence_marker)     *)
(* state is the fold of the toggle rule over lines 0..i-1, each applied    *)
(* once and in order, so that the state it uses for line i is the fold     *)
(* over lines 0..i; no line is toggled twice and no fence-marker line      *)
(* before i is left untoggled, whatever tables were detected on the way.   *)
(* The code violates it when a line that closes a fence holds a pipe and   *)
(* is followed by a delimiter row: the table candidate absorbs no line,    *)
(* the loop stays on the line and toggles it a second time.                *)

FenceStateName == IF ~in_fence THEN "none"
                  ELSE IF fence_marker = "~~~" THEN "tilde"
                  ELSE "backtick"

C15_FenceStateIsFold ==
    pc = "find" =>
        /\ FenceStateName = FoldBefore(lines, i)
        /\ \A k \in 1..Len(lines) : toggles[k] <= 1
        /\ \A k \in 1..i : FoldMarker(lines[k]) # "none" => toggles[k] = 1

----------------------------------------------------------------------------
(* C16  Table record invariant: every Table that find_tables appends has   *)
(* start <= end, exactly end - start + 1 rows and at least 2 of them, a    *)
(* second row that is the tokenization of a line is_delimiter_row accepts, *)
(* and only lines in [start, end] that are non-blank, hold a pipe and do   *)
(* not start with a fence marker.                                          *)
(* The code violates it with the record Table(start = i, end = i - 1,      *)
(* rows = []) that it appends for a fence-closing line with a pipe.        *)

WellFormedTable(t, ls) ==
    /\ t.start <= t.end
    /\ Len(t.rows) = t.end - t.start + 1
    /\ Len(t.rows) >= 2
    /\ is_delimiter_row(At(ls, t.start + 1))
    /\ t.rows[2] = split_row(At(ls, t.start + 1))
    /\ \A k \in RangeOf(t) :
          /\ Len(strip(At(ls, k))) > 0
          /\ HasPipe(At(ls, k))
          /\ FoldMarker(At(ls, k)) = "none"

C16_TableRecord ==
    \A n \in 1..Len(tables) : WellFormedTable(tables[n], original)

----------------------------------------------------------------------------
(* C17  Tokenizer round-trip.  As stated: for the cells split_row gives    *)
(* for a line, joining them with a bare pipe and putting one pipe in front *)
(* and one behind gives a line that split_row tokenizes to the same cells. *)
(* Checked on every row find_tables has tokenized.                         *)

JoinBare(cells) == "|" \o JoinWith("|", cells) \o "|"

JoinSpaced(cells) == "| " \o JoinWith(" | ", cells) \o " |"

BackslashBeforeBoundary(cells) ==
    \E c \in 1..(Len(cells) - 1) : endswith(cells[c], "\\")

C17_RoundTripBare ==
    \A n \in 1..Len(tables) : \A r \in 1..Len(tables[n].rows) :
        split_row(JoinBare(tables[n].rows[r])) = tables[n].rows[r]

(* C17 amended: joining the cells with " | " between them, "| " in front   *)
(* and " |" behind, as align_table writes a row, gives a line that         *)
(* split_row tokenizes to the same cells; joining with bare pipes does so  *)
(* exactly when no cell but the last ends with a backslash, because a bare *)
(* pipe after a backslash is read as an escaped pipe.                      *)

C17_RoundTripSpaced ==
    \A n \in 1..Len(tables) : \A r \in 1..Len(tables[n].rows) :
        LET cells == tables[n].rows[r] IN
        /\ split_row(JoinSpaced(cells)) = cells
        /\ (split_row(JoinBare(cells)) = cells) <=> ~BackslashBeforeBoundary(cells)

\* a tokenized row with a backslash at the end of a cell that is not the last
C17_Witness ==
    \E n \in 1..Len(tables) : \E r \in 1..Len(tables[n].rows) :
        /\ BackslashBeforeBoundary(tables[n].rows[r])
        /\ split_row(JoinBare(tables[n].rows[r])) # tables[n].rows[r]

----------------------------------------------------------------------------
(* C18  Rendered tables stay tables: when a pass is over, the second line  *)
(* of every table that align_table rendered in it is accepted by           *)
(* is_delimiter_row, and find_tables on the rewritten lines finds a table  *)
(* with the same start and end there.                                      *)
(* The code violates it for a column of width 3 whose delimiter cell has a *)
(* colon: align_table writes ":--", "--:" or ":-:", which has fewer than   *)
(* three dashes and is no delimiter cell for is_delimiter_cell.            *)

C18_RenderedStaysTable ==
    PassOver =>
        \A n \in Rendered :
            /\ is_delimiter_row(At(lines, tables[n].start + 1))
            /\ LET t == MakeTable(lines, tables[n].start)
               IN  t.start = tables[n].start /\ t.end = tables[n].end

----------------------------------------------------------------------------------------------------------------------------------------
(* C19  Termination of detection: the scanning loop of find_tables always  *)
(* reaches the end of the lines and returns.  While it scans, the index i  *)
(* never decreases; every iteration raises the measure 2 * i + (number of  *)
(* times the current line was handled), which never exceeds twice the      *)
(* number of lines; no line is handled more than twice, also when a table  *)
(* candidate absorbs no line (the line is then toggled again, which opens  *)
(* a fence, and the loop moves on); and at the end of the lines the loop   *)
(* has its return step.                                                    *)

ScanMeasure == 2 * i + (IF i < Len(lines) THEN toggles[i + 1] ELSE 0)

C19_ScanTerminates ==
    /\ [][(pc = "find" /\ pc' = "find") => (i' >= i /\ ScanMeasure' > ScanMeasure)]_vars
    /\ [](pc = "find" => (i <= Len(lines) /\ ScanMeasure <= 2 * Len(lines)))
    /\ [](\A k \in 1..Len(lines) : toggles[k] <= 2)
    /\ []((pc = "find" /\ i >= Len(lines)) => ENABLED (ReturnNoTables \/ BeginApply))

\* find_tables has returned after a table candidate that absorbed no line
C19_Witness ==
    /\ pc = "apply"
    /\ i = Len(lines)
    /\ \E n \in 1..Len(tables) : tables[n].end < tables[n].start
    /\ \E k \in 1..Len(lines) : toggles[k] = 2

----------------------------------------------------------------------------
(* C20  Splice ordering: the tables find_tables returns have strictly      *)
(* increasing starts and pairwise disjoint line ranges; process_file       *)
(* handles them from the last to the first; and while a table waits for    *)
(* its turn, the lines of its range are still the original lines, whose    *)
(* tokenization is the rows the table holds.                               *)

TablesOrdered ==
    \A n, m \in 1..Len(tables) :
        n < m => /\ tables[n].start < tables[m].start
                 /\ tables[n].end < tables[m].start

C20_SpliceOrdering ==
    /\ TablesOrdered
    /\ pc = "apply" =>
          /\ Rendered \subseteq (t_idx + 1)..Len(tables)
          /\ \A n \in 1..t_idx :
                /\ Slice(lines, tables[n]) = Slice(original, tables[n])
                /\ tables[n].rows = RawRows(lines, tables[n].start, tables[n].end)

\* a later table has been spliced in and an earlier one still waits for its turn
C20_Witness ==
    /\ pc = "apply"
    /\ t_idx >= 1
    /\ t_idx < Len(tables)
    /\ changed
    /\ Len(tables[t_idx].rows) >= 2

----------------------------------------------------------------------------
(* C12  Per-file failure isolation: when a run of main is over, every file *)
(* of the batch on which neither the read nor the write failed has been    *)
(* processed to its return (read, aligned and, if changed, written), and   *)
(* the changed-file count has been reported.                               *)
(* The code violates it: main calls process_file with no exception         *)
(* handler, so the first failing read or write ends the run; the files     *)
(* after it are never read and the count is never printed.                 *)

BatchOver == batch.status \in {"reported", "raised"}

C12_FailureIsolation ==
    BatchOver =>
        /\ batch.status = "reported"
        /\ \A k \in 1..Len(batch.files) : k \in batch.returned \cup batch.failed

====
